---- MODULE Spec2Model ----
(***************************************************************************)
(* Model of the plan-review gate of crhan/ai-review-plugins:               *)
(*   - expert-auditor-pro/scripts/main.py        (symmetric consensus)     *)
(*   - gemini-plan-review/scripts/plan-gemini-review.py (primary/advisory) *)
(*   - scripts/plan-gemini-review.py             (Gemini as only reviewer) *)
(* Text is a sequence of tokens, Python values are tagged records, and a   *)
(* Python dict with fixed string keys is a TLA+ record.  SpecMerge and     *)
(* SpecParse run the merges and the parsing paths as functions of their    *)
(* inputs; SpecOrchestrate runs audit_plan and the hook's main with their  *)
(* two concurrent reviewer calls; SpecSingle runs the single-reviewer     *)
(* hook.                                                                   *)
(***************************************************************************)
EXTENDS Integers, Sequences, FiniteSets, TLC

VARIABLES
    qwen_result,    \* the Qwen result dict handed to merge_results
    gemini_result,  \* the Gemini result dict handed to merge_results
    merged,         \* what merge_results returned (PyNone before the call)
    profile,        \* which merge_results ran: "none", "expert" or "hook"
    content,        \* the reviewer text handed to a parsing path
    model_type,     \* call_reviewer's model_type argument
    run,            \* how call_reviewer's subprocess.run ended
    parsed,         \* what the parsing path returned (PyNone before the call)
    path,           \* which parsing path ran: "none", "parse_decision", "call_reviewer"
    program,        \* which program runs: "none", "audit_plan", "main" or "single"
    event,          \* a hook's inputs: stdin, GEMINI_REVIEW_OFF, the latest plan file
    config,         \* what load_config returned (audit_plan only)
    pc,             \* the position: "idle", "start", "review", "gather", "done", "raised"
    task,           \* per reviewer, its call: "none", "running" or "done"
    calls,          \* per reviewer, how many times its backend was invoked
    outcome,        \* per reviewer, how its request or subprocess ended
    results,        \* per reviewer, what its call returned (PyNone before)
    ret             \* what the orchestrator returned (PyNone before)

mergeVars == <<qwen_result, gemini_result, merged, profile>>
parseVars == <<content, model_type, run, parsed, path>>
auditVars == <<program, event, config, pc, task, calls, outcome, results, ret>>
vars == <<mergeVars, parseVars, auditVars>>

(***************************************************************************)
(* Bounds of the model.                                                    *)
(***************************************************************************)
\* number of distinct non-empty reason texts a reviewer may give
NumReasons == 2
\* number of whitespace tokens that may lead a reviewer response
MaxPad == 1

(***************************************************************************)
(* Text: a sequence of tokens.                                             *)
(***************************************************************************)
\* a chunk of plain text
W(s) == [k |-> "w", s |-> s, in |-> <<>>]
\* a punctuation or keyword token: { } [ ] : , ws fence_json fence null num
P(c) == [k |-> c, s |-> "", in |-> <<>>]
\* a JSON number literal
N(s) == [k |-> "num", s |-> s, in |-> <<>>]
\* a JSON string literal whose characters spell the text `text`
S(text) == [k |-> "str", s |-> "", in |-> text]
\* the text of one chunk
T(s) == <<W(s)>>

(***************************************************************************)
(* Python values.                                                          *)
(***************************************************************************)
PyNone == [t |-> "none", v |-> <<>>]
PyStr(text) == [t |-> "str", v |-> text]
PyNum(s) == [t |-> "num", v |-> T(s)]
PyTrue == [t |-> "bool", v |-> T("True")]
PyFalse == [t |-> "bool", v |-> <<>>]
PyDict(pairs) == [t |-> "dict", v |-> pairs]
PyList(items) == [t |-> "list", v |-> items]
EmptyDict == [key \in {} |-> PyNone]

\* bool(value)
Truthy(value) ==
    CASE value.t = "none" -> FALSE
      [] value.t = "num" -> value.v # T("0")
      [] OTHER -> value.v # <<>>

\* a or b
PyOr(a, b) == IF Truthy(a) THEN a ELSE b

\* str(value), as an f-string renders it
Format(value) ==
    CASE value.t = "str" -> value.v
      [] value.t = "none" -> T("None")
      [] value.t = "num" -> value.v
      [] value.t = "bool" -> IF value = PyTrue THEN T("True") ELSE T("False")
      [] OTHER -> T("<object>")

\* d.get(key, default) on a dict with string keys
Get(d, key, default) == IF key \in DOMAIN d THEN d[key] ELSE default

APPROVE == PyStr(T("APPROVE"))
CONCERNS == PyStr(T("CONCERNS"))
REJECT == PyStr(T("REJECT"))
Decisions == {APPROVE, CONCERNS, REJECT}

(***************************************************************************)
(* expert-auditor-pro: merge_results (consensus mode B).                   *)
(***************************************************************************)
\* `result or {}`
OrEmptyDict(result) == IF result = PyNone THEN EmptyDict ELSE result

\* a failed or missing result counts as CONCERNS (mutant: it counts as APPROVE)
EffectiveDecisionFailOpen(result) ==
    IF Truthy(Get(result, "success", PyNone))
    THEN Get(result, "decision", CONCERNS)
    ELSE APPROVE

EffectiveDecision(result) ==
    IF Truthy(Get(result, "success", PyNone))
    THEN Get(result, "decision", CONCERNS)
    ELSE CONCERNS

\* mutant: a rejection is always attributed to the first reviewer
RejectBranchQwenNamed(q, g) ==
    [decision |-> REJECT,
     reason |-> PyOr(Get(q, "reason", PyStr(<<>>)),
                     PyOr(Get(g, "reason", PyStr(<<>>)), PyStr(T("Model rejected")))),
     feedback |-> PyOr(Get(q, "feedback", PyStr(<<>>)), Get(g, "feedback", PyStr(<<>>))),
     model |-> "qwen"]

RejectBranch(q, g) ==
    [decision |-> REJECT,
     reason |-> PyOr(Get(q, "reason", PyStr(<<>>)),
                     PyOr(Get(g, "reason", PyStr(<<>>)), PyStr(T("Model rejected")))),
     feedback |-> PyOr(Get(q, "feedback", PyStr(<<>>)), Get(g, "feedback", PyStr(<<>>))),
     model |-> IF EffectiveDecision(q) = REJECT THEN "qwen" ELSE "gemini"]

\* mutant: two hesitations are reported as CONCERNS of the first reviewer only
BothConcernsBranchUnescalated(q, g) ==
    [decision |-> CONCERNS,
     reason |-> PyStr(T("Both models have concerns")),
     feedback |-> PyStr(T("Qwen: ") \o Format(Get(q, "reason", PyStr(<<>>)))),
     model |-> "qwen"]

BothConcernsBranch(q, g) ==
    [decision |-> REJECT,
     reason |-> PyStr(T("Both models have concerns")),
     feedback |-> PyStr(T("Qwen: ") \o Format(Get(q, "reason", PyStr(<<>>)))
                        \o T("\nGemini: ") \o Format(Get(g, "reason", PyStr(<<>>)))),
     model |-> "both"]

\* mutant: the warning is attributed to the reviewer that has concerns
WarnBranchConcerned(q, g) ==
    [decision |-> APPROVE,
     reason |-> PyStr(T("Approved with warnings")),
     feedback |-> PyStr(T("Warning: ") \o Format(
                     PyOr(Get(q, "reason", PyStr(<<>>)),
                          PyOr(Get(g, "reason", PyStr(<<>>)),
                               PyStr(T("One model has concerns")))))),
     model |-> IF EffectiveDecision(g) = CONCERNS THEN "gemini" ELSE "qwen"]

\* mutant: the approval with warnings carries no feedback
WarnBranchSilent(q, g) ==
    [decision |-> APPROVE,
     reason |-> PyStr(T("Approved with warnings")),
     model |-> IF EffectiveDecision(g) = CONCERNS THEN "qwen" ELSE "gemini"]

WarnBranch(q, g) ==
    [decision |-> APPROVE,
     reason |-> PyStr(T("Approved with warnings")),
     feedback |-> PyStr(T("Warning: ") \o Format(
                     PyOr(Get(q, "reason", PyStr(<<>>)),
                          PyOr(Get(g, "reason", PyStr(<<>>)),
                               PyStr(T("One model has concerns")))))),
     model |-> IF EffectiveDecision(g) = CONCERNS THEN "qwen" ELSE "gemini"]

\* mutant: the second reviewer's reason is preferred when the first has none
BothApproveBranchEither(q, g) ==
    [decision |-> APPROVE,
     reason |-> PyOr(Get(q, "reason", PyStr(<<>>)),
                     PyOr(Get(g, "reason", PyStr(<<>>)), PyStr(T("Both approved")))),
     model |-> "both"]

BothApproveBranch(q, g) ==
    [decision |-> APPROVE,
     reason |-> PyOr(Get(q, "reason", PyStr(<<>>)), PyStr(T("Both approved"))),
     model |-> "both"]

merge_results(qwen_result_arg, gemini_result_arg) ==
    LET q == OrEmptyDict(qwen_result_arg)
        g == OrEmptyDict(gemini_result_arg)
        qwen_decision == EffectiveDecision(q)
        gemini_decision == EffectiveDecision(g)
    IN  IF qwen_decision = REJECT \/ gemini_decision = REJECT
        THEN RejectBranch(q, g)
        ELSE IF qwen_decision = CONCERNS /\ gemini_decision = CONCERNS
        THEN BothConcernsBranch(q, g)
        ELSE IF \/ (qwen_decision = APPROVE /\ gemini_decision = CONCERNS)
                \/ (qwen_decision = CONCERNS /\ gemini_decision = APPROVE)
        THEN WarnBranch(q, g)
        ELSE BothApproveBranch(q, g)

(***************************************************************************)
(* gemini-plan-review: merge_results (Qwen primary, Gemini advisory).      *)
(***************************************************************************)
\* mutant: a failed Qwen blocks instead of allowing
QwenFailedBranchBlocking(qwen_result_arg) ==
    [decision |-> REJECT, reason |-> PyStr(T("Qwen failed, allowing")), model |-> "N/A"]

QwenFailedBranch(qwen_result_arg) ==
    [decision |-> APPROVE, reason |-> PyStr(T("Qwen failed, allowing")), model |-> "N/A"]

HookGeminiDecision(g) ==
    IF Truthy(Get(g, "success", PyNone)) THEN Get(g, "decision", APPROVE) ELSE APPROVE

HookGeminiReason(g) ==
    IF Truthy(Get(g, "success", PyNone)) THEN Get(g, "reason", PyStr(<<>>)) ELSE PyStr(<<>>)

merge_results_hook(gemini_result_arg, qwen_result_arg) ==
    IF ~Truthy(Get(qwen_result_arg, "success", PyNone))
    THEN QwenFailedBranch(qwen_result_arg)
    ELSE LET qwen_decision == Get(qwen_result_arg, "decision", APPROVE)
             qwen_reason == Get(qwen_result_arg, "reason", PyStr(<<>>))
             qwen_feedback == Get(qwen_result_arg, "feedback", PyStr(<<>>))
             gemini_decision == HookGeminiDecision(gemini_result_arg)
             gemini_reason == HookGeminiReason(gemini_result_arg)
         IN  IF qwen_decision \in {CONCERNS, REJECT}
             THEN [decision |-> qwen_decision, reason |-> qwen_reason,
                   feedback |-> qwen_feedback, model |-> "qwen"]
             ELSE IF gemini_decision \in {CONCERNS, REJECT}
             THEN [decision |-> gemini_decision, reason |-> gemini_reason,
                   feedback |-> Get(gemini_result_arg, "feedback", PyStr(<<>>)),
                   model |-> "gemini"]
             ELSE [decision |-> APPROVE, reason |-> qwen_reason, model |-> "qwen"]

(***************************************************************************)
(* The reviewer results a merge can be handed.                             *)
(***************************************************************************)
ReasonTexts == {<<>>} \cup {T("reason" \o ToString(i)) : i \in 1..NumReasons}
FeedbackTexts == {<<>>, T("feedback1")}

\* decisions a successful result can carry: the parsing paths pass the
\* JSON value through, so it may be any string or null
ResultDecisions == Decisions \cup {PyStr(T("reject")), PyNone}

SuccessResults ==
    {[success |-> PyTrue, decision |-> d, reason |-> PyStr(r), feedback |-> PyStr(f)] :
        d \in ResultDecisions, r \in ReasonTexts, f \in FeedbackTexts}

FailureResults ==
    {[success |-> PyFalse, error |-> PyStr(T("Timeout"))], EmptyDict}

Results == SuccessResults \cup FailureResults

Present(result) == Truthy(Get(result, "success", PyNone))
Absent(result) == ~Present(result)
Says(result, d) == Present(result) /\ result.decision = d
WellFormed(result) == Present(result) /\ result.decision \in Decisions

(***************************************************************************)
(* Specification of the two merges as pure functions of their inputs.      *)
(***************************************************************************)
ParseIdle ==
    content = <<>> /\ model_type = "" /\ run = "not_run" /\ parsed = PyNone /\ path = "none"

Reviewers == {"qwen", "gemini"}
NoOutcome == [how |-> "none", body |-> <<>>]
NoEvent == [stdin |-> <<>>, off |-> PyNone, plans |-> <<>>]

AuditIdle ==
    /\ program = "none" /\ config = EmptyDict /\ pc = "idle" /\ ret = PyNone
    /\ event = NoEvent
    /\ task = [r \in Reviewers |-> "none"]
    /\ calls = [r \in Reviewers |-> 0]
    /\ outcome = [r \in Reviewers |-> NoOutcome]
    /\ results = [r \in Reviewers |-> PyNone]

InitMerge ==
    /\ qwen_result \in Results
    /\ gemini_result \in Results
    /\ merged = PyNone
    /\ profile = "none"
    /\ ParseIdle
    /\ AuditIdle

MergeExpert ==
    /\ profile = "none"
    /\ merged' = merge_results(qwen_result, gemini_result)
    /\ profile' = "expert"
    /\ UNCHANGED <<qwen_result, gemini_result, parseVars, auditVars>>

MergeHook ==
    /\ profile = "none"
    /\ merged' = merge_results_hook(gemini_result, qwen_result)
    /\ profile' = "hook"
    /\ UNCHANGED <<qwen_result, gemini_result, parseVars, auditVars>>

NextMerge == MergeExpert \/ MergeHook

SpecMerge == InitMerge /\ [][NextMerge]_vars

(***************************************************************************)
(* json.loads / json.dumps over token text.                                *)
(***************************************************************************)
WS == P("ws")
FENCE_JSON == P("fence_json")
FENCE == P("fence")

\* whitespace between JSON tokens is insignificant
NoWs(ts) == SelectSeq(ts, LAMBDA t : t.k # "ws")

ParseFail == [ok |-> FALSE, val |-> PyNone, pos |-> 0]
ParseOk(value, next) == [ok |-> TRUE, val |-> value, pos |-> next]

RECURSIVE ParseValue(_, _), ParseMembers(_, _, _), ParseElements(_, _, _)

\* one JSON value starting at ts[i]
ParseValue(ts, i) ==
    IF i > Len(ts) THEN ParseFail
    ELSE CASE ts[i].k = "str" -> ParseOk(PyStr(ts[i].in), i + 1)
           [] ts[i].k = "num" -> ParseOk(PyNum(ts[i].s), i + 1)
           [] ts[i].k = "null" -> ParseOk(PyNone, i + 1)
           [] ts[i].k = "{" ->
                IF i + 1 <= Len(ts) /\ ts[i + 1].k = "}"
                THEN ParseOk(PyDict(<<>>), i + 2)
                ELSE ParseMembers(ts, i + 1, <<>>)
           [] ts[i].k = "[" ->
                IF i + 1 <= Len(ts) /\ ts[i + 1].k = "]"
                THEN ParseOk(PyList(<<>>), i + 2)
                ELSE ParseElements(ts, i + 1, <<>>)
           [] OTHER -> ParseFail

\* "key": value pairs up to the closing brace; ts[i] is the next key
ParseMembers(ts, i, acc) ==
    IF i + 1 > Len(ts) \/ ts[i].k # "str" \/ ts[i + 1].k # ":" THEN ParseFail
    ELSE LET r == ParseValue(ts, i + 2)
         IN  IF ~r.ok \/ r.pos > Len(ts) THEN ParseFail
             ELSE LET acc2 == Append(acc, [key |-> ts[i].in, val |-> r.val])
                  IN  CASE ts[r.pos].k = "}" -> ParseOk(PyDict(acc2), r.pos + 1)
                        [] ts[r.pos].k = "," -> ParseMembers(ts, r.pos + 1, acc2)
                        [] OTHER -> ParseFail

\* values up to the closing bracket; ts[i] starts the next value
ParseElements(ts, i, acc) ==
    LET r == ParseValue(ts, i)
    IN  IF ~r.ok \/ r.pos > Len(ts) THEN ParseFail
        ELSE LET acc2 == Append(acc, r.val)
             IN  CASE ts[r.pos].k = "]" -> ParseOk(PyList(acc2), r.pos + 1)
                   [] ts[r.pos].k = "," -> ParseElements(ts, r.pos + 1, acc2)
                   [] OTHER -> ParseFail

\* json.loads(text): ok = FALSE stands for json.JSONDecodeError
json_loads(text) ==
    LET ts == NoWs(text)
        r == ParseValue(ts, 1)
    IN  IF r.ok /\ r.pos = Len(ts) + 1
        THEN [ok |-> TRUE, val |-> r.val]
        ELSE [ok |-> FALSE, val |-> PyNone]

RECURSIVE json_dumps(_), DumpMembers(_, _), DumpElements(_, _)

\* json.dumps(value), with the default ", " and ": " separators
json_dumps(value) ==
    CASE value.t = "str" -> <<S(value.v)>>
      [] value.t = "num" -> <<N(value.v[1].s)>>
      [] value.t = "none" -> <<P("null")>>
      [] value.t = "dict" -> <<P("{")>> \o DumpMembers(value.v, 1) \o <<P("}")>>
      [] value.t = "list" -> <<P("[")>> \o DumpElements(value.v, 1) \o <<P("]")>>
      [] OTHER -> <<P("true")>>

DumpMembers(pairs, i) ==
    IF i > Len(pairs) THEN <<>>
    ELSE (IF i > 1 THEN <<P(","), WS>> ELSE <<>>)
            \o <<S(pairs[i].key), P(":"), WS>> \o json_dumps(pairs[i].val)
            \o DumpMembers(pairs, i + 1)

DumpElements(items, i) ==
    IF i > Len(items) THEN <<>>
    ELSE (IF i > 1 THEN <<P(","), WS>> ELSE <<>>)
            \o json_dumps(items[i]) \o DumpElements(items, i + 1)

\* key in d, for a parsed JSON object d
DictHas(d, key) == \E i \in 1..Len(d.v) : d.v[i].key = T(key)

\* d.get(key, default) for a parsed JSON object d: the last pair of a key wins
DictGet(d, key, default) ==
    IF DictHas(d, key)
    THEN d.v[CHOOSE i \in 1..Len(d.v) :
                /\ d.v[i].key = T(key)
                /\ \A j \in (i + 1)..Len(d.v) : d.v[j].key # T(key)].val
    ELSE default

(***************************************************************************)
(* str.strip, str.upper().startswith and the fenced-block regex.           *)
(***************************************************************************)
RECURSIVE LStrip(_), RStrip(_)
LStrip(ts) == IF ts # <<>> /\ Head(ts).k = "ws" THEN LStrip(Tail(ts)) ELSE ts
RStrip(ts) ==
    IF ts # <<>> /\ ts[Len(ts)].k = "ws" THEN RStrip(SubSeq(ts, 1, Len(ts) - 1)) ELSE ts
\* text.strip()
Strip(ts) == RStrip(LStrip(ts))

\* the plain words of the model whose upper-cased spelling starts with a keyword
WordsStarting(keyword) ==
    CASE keyword = "APPROVE" -> {"APPROVE", "approve", "Approved."}
      [] keyword = "CONCERNS" -> {"CONCERNS", "Concerns:"}
      [] keyword = "REJECT" -> {"REJECT", "rejected"}
      [] OTHER -> {}

\* text.upper().startswith(keyword)
UpperStartsWith(ts, keyword) ==
    ts # <<>> /\ Head(ts).k = "w" /\ Head(ts).s \in WordsStarting(keyword)

\* index of the first token after ts[i] that is not whitespace (0 if none)
NextNonWs(ts, i) ==
    IF \E j \in (i + 1)..Len(ts) : ts[j].k # "ws"
    THEN CHOOSE j \in (i + 1)..Len(ts) :
            ts[j].k # "ws" /\ \A m \in (i + 1)..(j - 1) : ts[m].k = "ws"
    ELSE 0

\* "```" matches at a plain fence and at the start of "```json"
IsFence(t) == t.k \in {"fence", "fence_json"}

\* ts[i] opens, ts[e] closes a match of  ```json\s*(\{.*?\})\s*```
FenceMatchAt(ts, i, e) ==
    LET j == NextNonWs(ts, i)
        c == NextNonWs(ts, e)
    IN  /\ ts[i].k = "fence_json"
        /\ j # 0 /\ ts[j].k = "{"
        /\ e > j /\ ts[e].k = "}"
        /\ c # 0 /\ IsFence(ts[c])

\* the characters of a JSON string literal as the regex reads them: the
\* quotes of a quoted text inside it are escaped, fences and braces are not
RECURSIVE Escaped(_)
Escaped(ts) ==
    IF ts = <<>> THEN <<>>
    ELSE (IF Head(ts).k = "str"
          THEN <<P("\\\"")>> \o Escaped(Head(ts).in) \o <<P("\\\"")>>
          ELSE <<Head(ts)>>) \o Escaped(Tail(ts))

\* the leftmost match, with the shortest group, among the tokens of ts
FenceSearchTokens(ts) ==
    IF \E i \in 1..Len(ts), e \in 1..Len(ts) : FenceMatchAt(ts, i, e)
    THEN LET i == CHOOSE i \in 1..Len(ts) :
                    /\ \E e \in 1..Len(ts) : FenceMatchAt(ts, i, e)
                    /\ \A i2 \in 1..(i - 1) : \A e \in 1..Len(ts) : ~FenceMatchAt(ts, i2, e)
             e == CHOOSE e \in 1..Len(ts) :
                    /\ FenceMatchAt(ts, i, e)
                    /\ \A e2 \in 1..(e - 1) : ~FenceMatchAt(ts, i, e2)
         IN  [found |-> TRUE, group |-> SubSeq(ts, NextNonWs(ts, i), e)]
    ELSE [found |-> FALSE, group |-> <<>>]

\* a match starts at ts[i], or inside ts[i] when that is a string literal
FenceHitAt(ts, i) ==
    \/ \E e \in 1..Len(ts) : FenceMatchAt(ts, i, e)
    \/ ts[i].k = "str" /\ FenceSearchTokens(Escaped(ts[i].in)).found

\* re.search(r'```json\s*(\{.*?\})\s*```', text, re.DOTALL): leftmost start,
\* shortest group; found = FALSE stands for None.  The regex reads the
\* characters of string literals too; a match lies wholly inside one literal
\* or starts outside every literal.
FenceSearch(ts) ==
    IF \E i \in 1..Len(ts) : FenceHitAt(ts, i)
    THEN LET i == CHOOSE i \in 1..Len(ts) :
                    FenceHitAt(ts, i) /\ \A i2 \in 1..(i - 1) : ~FenceHitAt(ts, i2)
         IN  IF ts[i].k = "str"
             THEN FenceSearchTokens(Escaped(ts[i].in))
             ELSE FenceSearchTokens(SubSeq(ts, i, Len(ts)))
    ELSE [found |-> FALSE, group |-> <<>>]

(***************************************************************************)
(* expert-auditor-pro: parse_decision_from_content.                        *)
(***************************************************************************)
\* the verdict built from a parsed JSON object; `missing` is the default of
\* data.get("decision", ...)
\* mutant: the feedback of the object is not copied
VerdictOfNoFeedback(data, missing) ==
    [decision |-> DictGet(data, "decision", missing),
     reason |-> DictGet(data, "reason", PyStr(<<>>)),
     feedback |-> PyStr(<<>>)]

VerdictOf(data, missing) ==
    [decision |-> DictGet(data, "decision", missing),
     reason |-> DictGet(data, "reason", PyStr(<<>>)),
     feedback |-> DictGet(data, "feedback", PyStr(<<>>))]

UnparsedDefault(text) ==
    [decision |-> CONCERNS, reason |-> PyStr(T("Unable to parse decision")),
     feedback |-> PyStr(text)]

\* mutant: the keyword is recognised, the verdict is the unparsed default
PrefixVerdictUnparsed(text) == UnparsedDefault(text)

\* attempt 3: a keyword at the start of the text
PrefixVerdict(text) ==
    LET content_upper == Strip(text)
    IN  IF UpperStartsWith(content_upper, "APPROVE")
        THEN [decision |-> APPROVE, reason |-> PyStr(T("Model approved")),
              feedback |-> PyStr(<<>>)]
        ELSE IF UpperStartsWith(content_upper, "CONCERNS")
        THEN [decision |-> CONCERNS, reason |-> PyStr(T("Model has concerns")),
              feedback |-> PyStr(text)]
        ELSE IF UpperStartsWith(content_upper, "REJECT")
        THEN [decision |-> REJECT, reason |-> PyStr(T("Model rejected")),
              feedback |-> PyStr(text)]
        ELSE UnparsedDefault(text)

\* attempt 2: a fenced json block
FencedVerdict(text) ==
    LET json_match == FenceSearch(text)
        data == json_loads(json_match.group)
    IN  IF json_match.found /\ data.ok /\ DictHas(data.val, "decision")
        THEN VerdictOf(data.val, CONCERNS)
        ELSE PrefixVerdict(text)

parse_decision_from_content(text) ==
    LET data == json_loads(Strip(text))
    IN  IF data.ok /\ data.val.t = "dict" /\ DictHas(data.val, "decision")
        THEN VerdictOf(data.val, CONCERNS)
        ELSE FencedVerdict(text)

(***************************************************************************)
(* gemini-plan-review: call_reviewer.                                      *)
(***************************************************************************)
\* the slice bound of result_text[:200] and output[:200]
RawResponseLimit == 200

\* text[:n]
Take(text, n) == SubSeq(text, 1, IF Len(text) < n THEN Len(text) ELSE n)

Failure(error) == [success |-> PyFalse, error |-> PyStr(T(error))]

\* a successful result; the elapsed time it also carries is not modelled
Success(verdict, output) ==
    [success |-> PyTrue, decision |-> verdict.decision, reason |-> verdict.reason,
     feedback |-> verdict.feedback, raw |-> PyStr(output)]

\* the fallback of both formats: CONCERNS, never an automatic approval
FallbackVerdict(text) ==
    [decision |-> CONCERNS,
     reason |-> PyStr(T("Unable to parse model response as JSON decision")),
     feedback |-> PyStr(T("Raw response: ") \o Take(text, RawResponseLimit))]

\* Qwen format: result_text is the "result" of the last element of the list
QwenFormat(result_text, output) ==
    IF result_text.t # "str"
    THEN Failure("TypeError")           \* json.loads of a value that is no string
    ELSE LET decision_data == json_loads(result_text.v)
             json_match == FenceSearch(result_text.v)
             fenced_data == json_loads(json_match.group)
         IN  IF decision_data.ok
             THEN IF decision_data.val.t = "dict"
                  THEN Success(VerdictOf(decision_data.val, APPROVE), output)
                  ELSE Failure("AttributeError")    \* .get on a value that is no dict
             ELSE IF json_match.found /\ fenced_data.ok
             THEN Success(VerdictOf(fenced_data.val, APPROVE), output)
             ELSE Success(FallbackVerdict(result_text.v), output)

\* Gemini format: the output itself is searched, the fenced block first
GeminiFormat(parsed_output, output) ==
    LET json_match == FenceSearch(output)
        fenced_data == json_loads(json_match.group)
    IN  IF json_match.found /\ fenced_data.ok
        THEN Success(VerdictOf(fenced_data.val, APPROVE), output)
        ELSE IF parsed_output.t = "dict" /\ DictHas(parsed_output, "decision")
        THEN Success(VerdictOf(parsed_output, APPROVE), output)
        ELSE Success(FallbackVerdict(output), output)

\* the code after result.stdout.strip()
ExtractDecision(output) ==
    LET parsed_output == json_loads(output)
    IN  IF output = <<>> THEN Failure("Empty result")
        ELSE IF ~parsed_output.ok THEN Failure("JSON parse error")
        ELSE IF parsed_output.val.t = "list"
        THEN LET items == parsed_output.val.v
                 result_item == IF items # <<>> THEN items[Len(items)] ELSE PyDict(<<>>)
             IN  IF result_item.t # "dict"
                 THEN Failure("AttributeError")     \* .get on a value that is no dict
                 ELSE LET result_text == DictGet(result_item, "result", PyStr(<<>>))
                      IN  IF Truthy(result_text)
                          THEN QwenFormat(result_text, output)
                          ELSE GeminiFormat(parsed_output.val, output)
        ELSE GeminiFormat(parsed_output.val, output)

ModelTypes == {"gemini", "qwen"}
\* how subprocess.run can end: exit status 0 or not, TimeoutExpired,
\* FileNotFoundError, any other exception
Runs == {"exit0", "exit1", "timeout", "notfound", "oserror"}

call_reviewer(model_type_arg, run_arg, stdout) ==
    IF model_type_arg \notin ModelTypes THEN Failure("Unknown model type")
    ELSE CASE run_arg = "timeout" -> Failure("Timeout")
           [] run_arg = "notfound" -> Failure("Command not found")
           [] run_arg = "oserror" -> Failure("OSError")
           [] run_arg = "exit1" -> Failure("Return code: 1")
           [] OTHER -> ExtractDecision(Strip(stdout))

(***************************************************************************)
(* The reviewer texts a parsing path can be handed.                        *)
(***************************************************************************)
Missing == [t |-> "missing", v |-> <<>>]
Field(key, value) == IF value = Missing THEN <<>> ELSE <<[key |-> T(key), val |-> value]>>

\* a feedback text that quotes a fenced json block holding an empty object
QuotedBlock == <<FENCE_JSON, WS, P("{"), P("}"), WS, FENCE>>

\* JSON objects with any of the keys decision, reason, feedback
VerdictObjects ==
    {PyDict(Field("decision", d) \o Field("reason", r) \o Field("feedback", f)) :
        d \in ResultDecisions \cup {Missing},
        r \in {PyStr(x) : x \in ReasonTexts} \cup {Missing},
        f \in {PyStr(<<>>), PyStr(T("feedback1")), PyStr(QuotedBlock), Missing}}

\* JSON text cut short before its last token
CutShort(text) == SubSeq(text, 1, Len(text) - 1)

JsonTexts ==
    {json_dumps(o) : o \in VerdictObjects}
    \cup {CutShort(json_dumps(o)) : o \in {x \in VerdictObjects : Len(x.v) = 1}}
    \cup {<<>>, <<N("7")>>, <<P("null")>>, <<S(T("APPROVE"))>>, <<P("["), P("]")>>,
          <<P("["), N("7"), P("]")>>, T("fine")}

Fenced(text) == <<FENCE_JSON, WS>> \o text \o <<WS, FENCE>>

Bodies == JsonTexts \cup {Fenced(j) : j \in JsonTexts}

LeadWords == {"APPROVE", "approve", "Concerns:", "rejected", "LGTM"}
Leads == {<<>>} \cup {<<W(w), WS>> : w \in LeadWords}

Pad(n) == [i \in 1..n |-> WS]

Responses == {lead \o body : lead \in Leads, body \in Bodies}

Contents == {Pad(n) \o r : n \in 0..MaxPad, r \in Responses}

\* the output of `qwen -o json`: a list whose last element holds the response
QwenOutput(result) ==
    json_dumps(PyList(<<PyDict(Field("type", PyStr(T("system")))),
                        PyDict(Field("type", PyStr(T("result"))) \o Field("result", result))>>))

StdOuts ==
    Contents
    \cup {QwenOutput(PyStr(r)) : r \in Responses}
    \cup {QwenOutput(PyNum("7")), QwenOutput(PyNone), QwenOutput(Missing)}

(***************************************************************************)
(* Specification of the parsing paths as pure functions of the text.       *)
(***************************************************************************)
MergeIdle ==
    qwen_result = EmptyDict /\ gemini_result = EmptyDict /\ merged = PyNone
        /\ profile = "none"

InitParse ==
    /\ content \in StdOuts
    /\ model_type = ""
    /\ run = "not_run"
    /\ parsed = PyNone
    /\ path = "none"
    /\ MergeIdle
    /\ AuditIdle

ParseDecision ==
    /\ path = "none"
    /\ parsed' = parse_decision_from_content(content)
    /\ path' = "parse_decision"
    /\ UNCHANGED <<content, model_type, run, mergeVars, auditVars>>

CallReviewer ==
    /\ path = "none"
    /\ \E mt \in ModelTypes \cup {"claude"}, r \in Runs :
        /\ model_type' = mt
        /\ run' = IF mt \in ModelTypes THEN r ELSE "not_run"
        /\ parsed' = call_reviewer(mt, r, content)
    /\ path' = "call_reviewer"
    /\ UNCHANGED <<content, mergeVars, auditVars>>

NextParse == ParseDecision \/ CallReviewer

SpecParse == InitParse /\ [][NextParse]_vars

(***************************************************************************)
(* expert-auditor-pro: call_qwen and call_gemini.                          *)
(***************************************************************************)
\* an exception: its type name and str(e)
Exc(type, msg) == [type |-> type, msg |-> msg]
\* what a call leaves behind when an exception escapes it: no result dict
Raised(e) == [raised |-> e.type]
IsDict(result) == "raised" \notin DOMAIN result /\ "t" \notin DOMAIN result

TryOk(value) == [ok |-> TRUE, val |-> value, exc |-> Exc("", <<>>)]
TryFail(e) == [ok |-> FALSE, val |-> PyNone, exc |-> e]

\* value[key]
Subscript(value, key) ==
    IF value.t = "dict"
    THEN IF DictHas(value, key)
         THEN TryOk(DictGet(value, key, PyNone))
         ELSE TryFail(Exc("KeyError", T("'" \o key \o "'")))
    ELSE TryFail(Exc("TypeError", T("indices must be integers")))

\* value[0]
First(value) ==
    CASE value.t = "list" ->
            IF value.v # <<>> THEN TryOk(value.v[1])
            ELSE TryFail(Exc("IndexError", T("list index out of range")))
      [] value.t = "dict" -> TryFail(Exc("KeyError", T("0")))
      [] value.t = "str" ->
            IF value.v # <<>> THEN TryOk(PyStr(<<value.v[1]>>))
            ELSE TryFail(Exc("IndexError", T("string index out of range")))
      [] OTHER -> TryFail(Exc("TypeError", T("object is not subscriptable")))

\* value[p1][p2]...: "0" is the index 0, any other step a key
RECURSIVE Dig(_, _)
Dig(value, steps) ==
    IF steps = <<>> THEN TryOk(value)
    ELSE LET r == IF Head(steps) = "0" THEN First(value) ELSE Subscript(value, Head(steps))
         IN  IF r.ok THEN Dig(r.val, Tail(steps)) ELSE r

\* result["choices"][0]["message"]["content"]
QwenContentPath == <<"choices", "0", "message", "content">>
\* result["candidates"][0]["content"]["parts"][0]["text"]
GeminiContentPath == <<"candidates", "0", "content", "parts", "0", "text">>

\* how a request can end: a response with status 200, a response with an
\* error status, no response in 120 s, no connection
Https == {"ok", "status", "timeout", "transport"}

\* the slice bound of e.response.text[:200]
ErrorTextLimit == 200

\* the try block up to the content: the content text, or the exception raised
\* by client.post, raise_for_status, response.json, the subscripts, len(content)
\* or the parsing of a content that is no string
ApiTry(how, body, steps) ==
    CASE how = "timeout" -> TryFail(Exc("ReadTimeout", <<>>))
      [] how = "transport" -> TryFail(Exc("ConnectError", T("All connection attempts failed")))
      [] how = "status" -> TryFail(Exc("HTTPStatusError", T("Server error")))
      [] OTHER ->
            LET result == json_loads(body)
                got == Dig(result.val, steps)
            IN  IF ~result.ok THEN TryFail(Exc("JSONDecodeError", T("Expecting value")))
                ELSE IF ~got.ok THEN got
                ELSE IF got.val.t # "str" THEN TryFail(Exc("TypeError", T("expected string")))
                ELSE got

\* mutant: the exception is raised again instead of being returned as a value
ApiFailureRaised(model, error) == Raised(Exc("Exception", error))

\* mutant: a failed call is returned as an approval
ApiFailureApproved(model, error) ==
    [success |-> PyTrue, model |-> model, content |-> PyStr(error),
     decision |-> APPROVE, reason |-> PyStr(error), feedback |-> PyStr(<<>>)]

ApiFailure(model, error) ==
    [success |-> PyFalse, model |-> model, error |-> PyStr(error)]

\* a successful result; the usage it also carries is not modelled
ApiSuccess(model, text, decision_data) ==
    [success |-> PyTrue, model |-> model, content |-> PyStr(text),
     decision |-> decision_data.decision, reason |-> decision_data.reason,
     feedback |-> decision_data.feedback]

HttpError(body) == T("HTTP 500: ") \o Take(body, ErrorTextLimit)

call_qwen(model, how, body) ==
    LET got == ApiTry(how, body, QwenContentPath)
    IN  IF got.ok
        THEN ApiSuccess(model, got.val.v, parse_decision_from_content(got.val.v))
        ELSE IF got.exc.type = "HTTPStatusError"
        THEN ApiFailure(model, HttpError(body))
        ELSE ApiFailure(model, T(got.exc.type) \o T(": ") \o got.exc.msg)

call_gemini(model, how, body) ==
    LET got == ApiTry(how, body, GeminiContentPath)
    IN  IF got.ok
        THEN ApiSuccess(model, got.val.v, parse_decision_from_content(got.val.v))
        ELSE IF got.exc.type = "HTTPStatusError"
        THEN ApiFailure(model, HttpError(body))
        ELSE ApiFailure(model, got.exc.msg)

(***************************************************************************)
(* expert-auditor-pro: audit_plan.                                         *)
(***************************************************************************)
\* the model identifiers a configuration may name, the default one first
QwenModels == {"qwen3.5-plus", "qwq-plus"}
GeminiModels == {"gemini-3.1-pro-preview", "gemma-3-27b-it"}
\* an API key is absent (empty) or present
ApiKeys == {<<>>, T("sk-key")}

Configs ==
    {[qwen_api_key |-> PyStr(qk), gemini_api_key |-> PyStr(gk),
      qwen_model |-> PyStr(T(qm)), gemini_model |-> PyStr(T(gm))] :
        qk \in ApiKeys, gk \in ApiKeys, qm \in QwenModels, gm \in GeminiModels}

\* the model identifiers of the model that start with a prefix
ModelsStarting(prefix) ==
    CASE prefix = "qwen" -> {"qwen3.5-plus"}
      [] prefix = "gemini" -> {"gemini-3.1-pro-preview"}
      [] OTHER -> {}

\* result.get("model", "").startswith(prefix)
ModelStartsWith(result, prefix) ==
    Get(result, "model", PyStr(<<>>)) \in {PyStr(T(m)) : m \in ModelsStarting(prefix)}

ApiKey(cfg, r) ==
    IF r = "qwen" THEN Get(cfg, "qwen_api_key", PyStr(<<>>))
    ELSE Get(cfg, "gemini_api_key", PyStr(<<>>))

\* mutant: a task is created for every reviewer
TasksOfAll(cfg) == Reviewers

\* the reviewers a task is created for
TasksOf(cfg) == {r \in Reviewers : Truthy(ApiKey(cfg, r))}

\* mutant: without any API the audit returns an approval
NoApiApproved == [merged |-> [decision |-> APPROVE, reason |-> PyStr(T("No API"))]]

\* the sentinel returned when no API is available (its text stands for the
\* message of the source)
NoApiError == [error |-> PyStr(T("configure an API key first"))]

\* the collection loop: the last result, in task order, that is a dict whose
\* model starts with "qwen"
QwenSlot(rs) ==
    LET hits == SelectSeq(rs, LAMBDA x : IsDict(x) /\ ModelStartsWith(x, "qwen"))
    IN  IF hits = <<>> THEN PyNone ELSE hits[Len(hits)]

\* ... whose model does not start with "qwen" and starts with "gemini"
GeminiSlot(rs) ==
    LET hits == SelectSeq(rs, LAMBDA x : IsDict(x) /\ ~ModelStartsWith(x, "qwen")
                                            /\ ModelStartsWith(x, "gemini"))
    IN  IF hits = <<>> THEN PyNone ELSE hits[Len(hits)]

\* value[:100] does not raise
Sliceable(value) == value.t \in {"str", "list"}

\* the replies of a reviewer model
AuditReplies ==
    {json_dumps(PyDict(Field("decision", APPROVE) \o Field("reason", PyStr(T("reason1"))))),
     json_dumps(PyDict(Field("decision", CONCERNS) \o Field("reason", PyStr(T("reason1"))))),
     json_dumps(PyDict(Field("decision", REJECT) \o Field("reason", PyStr(T("reason2"))))),
     json_dumps(PyDict(Field("decision", REJECT) \o Field("reason", PyNum("7")))),
     T("LGTM")}

QwenBody(c) ==
    json_dumps(PyDict(Field("choices",
        PyList(<<PyDict(Field("message", PyDict(Field("content", c))))>>))))

GeminiBody(c) ==
    json_dumps(PyDict(Field("candidates",
        PyList(<<PyDict(Field("content",
            PyDict(Field("parts", PyList(<<PyDict(Field("text", c))>>)))))>>))))

\* bodies that are no JSON, or JSON of another shape
BrokenBodies ==
    {T("<html>"), json_dumps(PyDict(<<>>)),
     json_dumps(PyDict(Field("choices", PyList(<<>>)) \o Field("candidates", PyList(<<>>)))),
     QwenBody(PyNone), GeminiBody(PyNone)}

QwenBodies == {QwenBody(PyStr(r)) : r \in AuditReplies} \cup BrokenBodies
GeminiBodies == {GeminiBody(PyStr(r)) : r \in AuditReplies} \cup BrokenBodies

\* how a request ends and what its response holds
Outcomes(bodies) ==
    {[how |-> "ok", body |-> b] : b \in bodies}
    \cup {[how |-> "status", body |-> T("Internal Server Error")],
          [how |-> "timeout", body |-> <<>>], [how |-> "transport", body |-> <<>>]}

InitAudit ==
    /\ program = "audit_plan"
    /\ event = NoEvent
    /\ config \in Configs
    /\ pc = "start"
    /\ task = [r \in Reviewers |-> "none"]
    /\ calls = [r \in Reviewers |-> 0]
    /\ outcome = [r \in Reviewers |-> NoOutcome]
    /\ results = [r \in Reviewers |-> PyNone]
    /\ ret = PyNone
    /\ qwen_result = PyNone /\ gemini_result = PyNone /\ merged = PyNone
    /\ profile = "none"
    /\ ParseIdle

\* audit_plan up to `await asyncio.gather`
AuditStart ==
    /\ program = "audit_plan" /\ pc = "start"
    /\ IF \/ ~Truthy(ApiKey(config, "qwen")) /\ ~Truthy(ApiKey(config, "gemini"))
          \/ TasksOf(config) = {}
       THEN /\ ret' = NoApiError
            /\ pc' = "done"
            /\ UNCHANGED <<task, calls>>
       ELSE /\ task' = [r \in Reviewers |-> IF r \in TasksOf(config) THEN "running" ELSE "none"]
            /\ calls' = [r \in Reviewers |->
                            IF r \in TasksOf(config) THEN calls[r] + 1 ELSE calls[r]]
            /\ pc' = "gather"
            /\ ret' = ret
    /\ UNCHANGED <<program, event, config, outcome, results, mergeVars, parseVars>>

\* the Qwen task runs call_qwen to its end
CallQwen ==
    /\ program = "audit_plan" /\ task["qwen"] = "running"
    /\ \E o \in Outcomes(QwenBodies) :
        /\ outcome' = [outcome EXCEPT !["qwen"] = o]
        /\ results' = [results EXCEPT !["qwen"] = call_qwen(config.qwen_model, o.how, o.body)]
    /\ task' = [task EXCEPT !["qwen"] = "done"]
    /\ UNCHANGED <<program, event, config, pc, calls, ret, mergeVars, parseVars>>

\* the Gemini task runs call_gemini to its end
CallGemini ==
    /\ program = "audit_plan" /\ task["gemini"] = "running"
    /\ \E o \in Outcomes(GeminiBodies) :
        /\ outcome' = [outcome EXCEPT !["gemini"] = o]
        /\ results' = [results EXCEPT !["gemini"] =
                            call_gemini(config.gemini_model, o.how, o.body)]
    /\ task' = [task EXCEPT !["gemini"] = "done"]
    /\ UNCHANGED <<program, event, config, pc, calls, ret, mergeVars, parseVars>>

\* audit_plan from the return of asyncio.gather, which waits for every task
AuditGather ==
    /\ program = "audit_plan" /\ pc = "gather"
    /\ \A r \in Reviewers : task[r] # "running"
    /\ LET rs == <<results["qwen"], results["gemini"]>>
           m == merge_results(OrEmptyDict(QwenSlot(rs)), OrEmptyDict(GeminiSlot(rs)))
       IN  /\ qwen_result' = QwenSlot(rs)
           /\ gemini_result' = GeminiSlot(rs)
           /\ merged' = m
           /\ profile' = "expert"
           /\ IF Sliceable(Get(m, "reason", PyStr(<<>>)))
              THEN /\ pc' = "done"
                   /\ ret' = [qwen |-> QwenSlot(rs), gemini |-> GeminiSlot(rs), merged |-> m]
              ELSE /\ pc' = "raised"         \* TypeError at reason[:100]
                   /\ ret' = ret
    /\ UNCHANGED <<program, event, config, task, calls, outcome, results, parseVars>>

(***************************************************************************)
(* gemini-plan-review: main, from the launch of the two reviewers.         *)
(***************************************************************************)
\* outputs that are empty, no JSON, or JSON of another shape
HookBroken == {<<>>, T("fine"), QwenOutput(PyNum("7"))}

\* what the two CLIs may print
HookStdOuts ==
    HookBroken \cup
    {json_dumps(PyDict(Field("decision", APPROVE) \o Field("reason", PyStr(T("reason1"))))),
     json_dumps(PyDict(Field("decision", REJECT) \o Field("reason", PyStr(T("reason2")))
                        \o Field("feedback", PyStr(T("feedback1"))))),
     QwenOutput(PyStr(json_dumps(PyDict(Field("decision", APPROVE))))),
     QwenOutput(PyStr(json_dumps(PyDict(Field("decision", CONCERNS)
                        \o Field("reason", PyStr(T("reason1"))))))),
     QwenOutput(PyStr(T("LGTM")))}

\* how a subprocess ends and what it printed
HookOutcomes ==
    {[how |-> "exit0", body |-> b] : b \in HookStdOuts}
    \cup {[how |-> h, body |-> <<>>] : h \in Runs \ {"exit0"}}

NotCalled == [success |-> PyFalse, error |-> PyStr(T("Not called"))]

\* `result or {"success": False, "error": "Not called"}`, where result is
\* None when future.result() raised
OrNotCalled(result) ==
    IF IsDict(result) /\ result # EmptyDict THEN result ELSE NotCalled

\* f"Plan review {decision}: {reason}" and the feedback, if any
DenyReason(m) ==
    T("Plan review ") \o Format(Get(m, "decision", APPROVE)) \o T(": ")
        \o Format(Get(m, "reason", PyStr(<<>>)))
        \o (IF Truthy(Get(m, "feedback", PyStr(<<>>)))
            THEN T("\n\nFeedback: ") \o Format(Get(m, "feedback", PyStr(<<>>)))
            ELSE <<>>)

\* mutant: every merged decision is let through
ExitOfAllow(m) == [exit |-> 0]

\* main's return value and the deny output it printed
ExitOf(m) ==
    IF Get(m, "decision", APPROVE) = APPROVE
    THEN [exit |-> 0]
    ELSE [exit |-> 2, permissionDecision |-> "deny",
          permissionDecisionReason |-> DenyReason(m)]

\* tool_input of an event: with a plan, without, with a number as plan,
\* null, or no tool_input at all
ToolInputs ==
    {PyDict(Field("plan", PyStr(T("plan1")))), PyDict(<<>>),
     PyDict(Field("plan", PyNum("7"))), PyNone, Missing}

\* the JSON objects a hook may read from stdin (no cwd, no transcript_path)
HookInputs ==
    {PyDict(Field("tool_name", n) \o Field("session_id", i) \o Field("tool_input", ti)) :
        n \in {PyStr(T("ExitPlanMode")), PyStr(T("Bash")), Missing},
        i \in {PyStr(T("session1")), PyStr(<<>>), Missing},
        ti \in ToolInputs}

\* stdin: an object, text that is no JSON, nothing, or JSON that is no object
Stdins == {json_dumps(o) : o \in HookInputs} \cup {T("nojson"), <<>>, <<P("["), P("]")>>}

\* stdin, os.environ.get("GEMINI_REVIEW_OFF"), and the text of the latest
\* ~/.claude/plans/*.md file (empty if there is none)
HookEvents ==
    [stdin : Stdins, off : {PyNone, PyStr(T("1"))}, plans : {<<>>, T("plan2")}]

\* main up to the prompt: "return0", "raised" (an exception escapes main)
\* or "review" (all guards passed)
GuardChecks(ev) ==
    LET input_data == json_loads(ev.stdin)
    IN  IF ~input_data.ok THEN "return0"
        ELSE IF input_data.val.t # "dict" THEN "raised"    \* input_data.get
        ELSE IF ev.off = PyStr(T("1")) THEN "return0"
        ELSE IF DictGet(input_data.val, "tool_name", PyStr(<<>>)) # PyStr(T("ExitPlanMode"))
        THEN "return0"
        ELSE IF ~Truthy(DictGet(input_data.val, "session_id", PyStr(<<>>))) THEN "return0"
        ELSE LET tool_input == DictGet(input_data.val, "tool_input", PyDict(<<>>))
             IN  IF tool_input.t # "dict" THEN "raised"    \* tool_input.get
                 ELSE LET plan == DictGet(tool_input, "plan", PyStr(<<>>))
                          plan_content == IF Truthy(plan) THEN plan ELSE PyStr(ev.plans)
                      IN  IF ~Truthy(plan_content) THEN "return0"
                          ELSE IF plan_content.t = "num" THEN "raised"    \* len()
                          ELSE "review"

\* the program's position and return value after the guards
AfterGuards(ev) ==
    CASE GuardChecks(ev) = "return0" -> [pc |-> "done", ret |-> [exit |-> 0]]
      [] GuardChecks(ev) = "raised" -> [pc |-> "raised", ret |-> PyNone]
      [] OTHER -> [pc |-> "review", ret |-> PyNone]

InitHook ==
    /\ program = "main"
    /\ event \in HookEvents
    /\ config = EmptyDict
    /\ pc = "start"
    /\ task = [r \in Reviewers |-> "none"]
    /\ calls = [r \in Reviewers |-> 0]
    /\ outcome = [r \in Reviewers |-> NoOutcome]
    /\ results = [r \in Reviewers |-> PyNone]
    /\ ret = PyNone
    /\ qwen_result = PyNone /\ gemini_result = PyNone /\ merged = PyNone
    /\ profile = "none"
    /\ ParseIdle

\* main from reading stdin to the assembled prompt
HookGuards ==
    /\ program = "main" /\ pc = "start"
    /\ pc' = AfterGuards(event).pc
    /\ ret' = AfterGuards(event).ret
    /\ UNCHANGED <<program, event, config, task, calls, outcome, results, mergeVars, parseVars>>

\* both reviewers are submitted to the executor
HookSubmit ==
    /\ program = "main" /\ pc = "review"
    /\ task' = [r \in Reviewers |-> "running"]
    /\ calls' = [r \in Reviewers |-> calls[r] + 1]
    /\ pc' = "gather"
    /\ UNCHANGED <<program, event, config, outcome, results, ret, mergeVars, parseVars>>

\* a worker thread runs call_reviewer to its end
HookCall(r) ==
    /\ program = "main" /\ task[r] = "running"
    /\ \E o \in HookOutcomes :
        /\ outcome' = [outcome EXCEPT ![r] = o]
        /\ results' = [results EXCEPT ![r] = call_reviewer(r, o.how, o.body)]
    /\ task' = [task EXCEPT ![r] = "done"]
    /\ UNCHANGED <<program, event, config, pc, calls, ret, mergeVars, parseVars>>

\* main from the two future.result() calls, which wait for both workers
HookJoin ==
    /\ program = "main" /\ pc = "gather"
    /\ \A r \in Reviewers : task[r] = "done"
    /\ LET g == OrNotCalled(results["gemini"])
           q == OrNotCalled(results["qwen"])
           m == merge_results_hook(g, q)
       IN  /\ gemini_result' = g
           /\ qwen_result' = q
           /\ merged' = m
           /\ profile' = "hook"
           /\ ret' = ExitOf(m)
    /\ pc' = "done"
    /\ UNCHANGED <<program, event, config, task, calls, outcome, results, parseVars>>

(***************************************************************************)
(* Specification of the two orchestrators.                                 *)
(***************************************************************************)
InitOrchestrate == InitAudit \/ InitHook

NextOrchestrate ==
    \/ AuditStart
    \/ CallQwen
    \/ CallGemini
    \/ AuditGather
    \/ HookGuards
    \/ HookSubmit
    \/ \E r \in Reviewers : HookCall(r)
    \/ HookJoin

SpecOrchestrate == InitOrchestrate /\ [][NextOrchestrate]_vars

(***************************************************************************)
(* scripts/plan-gemini-review.py: the hook with Gemini as only reviewer.   *)
(***************************************************************************)
\* the JSON objects Gemini may print
SingleObjects ==
    {PyDict(Field("decision", d) \o Field("reason", r) \o Field("feedback", f)) :
        d \in Decisions \cup {PyStr(T("approve")), PyStr(<<>>), PyNone, Missing},
        r \in {PyStr(T("reason1")), Missing},
        f \in {PyStr(T("feedback1")), Missing}}

\* what the gemini command may print: nothing, blanks, no JSON, JSON that is
\* no object, an object
SingleStdOuts ==
    {<<>>, <<WS>>, T("fine"), <<P("["), P("]")>>, <<S(T("REJECT"))>>}
    \cup {json_dumps(o) : o \in SingleObjects}
    \cup {<<WS>> \o json_dumps(o) \o <<WS>> : o \in {x \in SingleObjects : Len(x.v) = 1}}

\* the exit status is not looked at: output counts whatever the status
SingleOutcomes ==
    {[how |-> h, body |-> b] : h \in {"exit0", "exit1"}, b \in SingleStdOuts}
    \cup {[how |-> h, body |-> <<>>] : h \in Runs \ {"exit0", "exit1"}}

\* mutant: a decision that is not APPROVE is let through as well
SingleVerdictAllow(how, stdout) == [exit |-> 0]

\* main from subprocess.run to its return; [raised |-> type] when an
\* exception escapes
SingleVerdict(how, stdout) ==
    IF how \notin {"exit0", "exit1"} THEN [exit |-> 0]
    ELSE LET output == Strip(stdout)
             data == json_loads(output)
         IN  IF output = <<>> THEN [exit |-> 0]
             ELSE IF ~data.ok THEN [exit |-> 0]
             ELSE IF data.val.t # "dict" THEN Raised(Exc("AttributeError", <<>>))
             ELSE LET decision == DictGet(data.val, "decision", APPROVE)
                      reason == DictGet(data.val, "reason", PyStr(<<>>))
                      feedback == DictGet(data.val, "feedback", PyStr(<<>>))
                  IN  IF ~Truthy(decision) \/ decision = APPROVE THEN [exit |-> 0]
                      ELSE [exit |-> 2, permissionDecision |-> "deny",
                            permissionDecisionReason |->
                                DenyReason([decision |-> decision, reason |-> reason,
                                            feedback |-> feedback])]

InitSingle ==
    /\ program = "single"
    /\ event \in HookEvents
    /\ config = EmptyDict
    /\ pc = "start"
    /\ task = [r \in Reviewers |-> "none"]
    /\ calls = [r \in Reviewers |-> 0]
    /\ outcome = [r \in Reviewers |-> NoOutcome]
    /\ results = [r \in Reviewers |-> PyNone]
    /\ ret = PyNone
    /\ MergeIdle
    /\ ParseIdle

\* main from reading stdin to the assembled prompt
SingleGuards ==
    /\ program = "single" /\ pc = "start"
    /\ pc' = AfterGuards(event).pc
    /\ ret' = AfterGuards(event).ret
    /\ UNCHANGED <<program, event, config, task, calls, outcome, results, mergeVars, parseVars>>

\* main from the Gemini call to its return
SingleReview ==
    /\ program = "single" /\ pc = "review"
    /\ \E o \in SingleOutcomes :
        LET r == SingleVerdict(o.how, o.body)
        IN  /\ outcome' = [outcome EXCEPT !["gemini"] = o]
            /\ pc' = IF "raised" \in DOMAIN r THEN "raised" ELSE "done"
            /\ ret' = IF "raised" \in DOMAIN r THEN ret ELSE r
    /\ calls' = [calls EXCEPT !["gemini"] = calls["gemini"] + 1]
    /\ task' = [task EXCEPT !["gemini"] = "done"]
    /\ UNCHANGED <<program, event, config, results, mergeVars, parseVars>>

NextSingle == SingleGuards \/ SingleReview

SpecSingle == InitSingle /\ [][NextSingle]_vars

(***************************************************************************)
(* Helpers of the properties.                                              *)
(***************************************************************************)
\* text p is a prefix of text t
IsPrefix(p, t) == Len(p) <= Len(t) /\ SubSeq(t, 1, Len(p)) = p
\* text p occurs in text t
Occurs(p, t) == \E i \in 0..(Len(t) - Len(p)) : SubSeq(t, i + 1, i + Len(p)) = p
\* merged.get(key, "")
MergedField(key) == Get(merged, key, PyStr(<<>>))
Merged == profile # "none"
\* the reviewer that is present when the other one is absent
OnlyQwen == WellFormed(qwen_result) /\ Absent(gemini_result)
OnlyGemini == WellFormed(gemini_result) /\ Absent(qwen_result)
\* r1 or r2 or fallback, as text
FirstReason(r1, r2, fallback) == PyOr(r1.reason, PyOr(r2.reason, PyStr(T(fallback))))

(***************************************************************************)
(* C1: whenever a present verdict is REJECT, the merged decision is        *)
(* REJECT, in either position and in either merge.  The primary/advisory   *)
(* merge allows the plan when Qwen failed although Gemini rejects.         *)
(***************************************************************************)
C1_RejectAbsorbs ==
    (Merged /\ (Says(qwen_result, REJECT) \/ Says(gemini_result, REJECT)))
        => merged.decision = REJECT

(***************************************************************************)
(* C2 as stated: with both reviewers absent every merge returns APPROVE    *)
(* attributed to no reviewer.                                              *)
(***************************************************************************)
C2_BothAbsentApproves ==
    (Merged /\ Absent(qwen_result) /\ Absent(gemini_result))
        => (merged.decision = APPROVE /\ merged.model \notin {"qwen", "gemini", "both"})

(***************************************************************************)
(* C2 as amended: with both reviewers absent the primary/advisory merge    *)
(* returns APPROVE attributed to no reviewer, and the symmetric merge      *)
(* counts each absent reviewer as CONCERNS and returns REJECT attributed   *)
(* to both.                                                                *)
(***************************************************************************)
C2_BothAbsent ==
    (Merged /\ Absent(qwen_result) /\ Absent(gemini_result))
        => /\ profile = "hook" =>
                (merged.decision = APPROVE /\ merged.model = "N/A"
                    /\ "feedback" \notin DOMAIN merged)
           /\ profile = "expert" =>
                (merged.decision = REJECT /\ merged.model = "both"
                    /\ merged.reason = PyStr(T("Both models have concerns")))

C2_Witness ==
    /\ profile = "expert"
    /\ Absent(qwen_result) /\ Absent(gemini_result)
    /\ merged.decision = REJECT
    /\ merged.model = "both"

C3_ExpertSingle(r, name) ==
    /\ r.decision = REJECT =>
            /\ merged.decision = REJECT
            /\ merged.reason = PyOr(r.reason, PyStr(T("Model rejected")))
            /\ merged.feedback = r.feedback
            /\ merged.model = name
    /\ r.decision = APPROVE =>
            /\ merged.decision = APPROVE
            /\ merged.reason = PyStr(T("Approved with warnings"))
            /\ merged.model = name
    /\ r.decision = CONCERNS =>
            /\ merged.decision = REJECT
            /\ merged.reason = PyStr(T("Both models have concerns"))
            /\ merged.model = "both"

WholeJsonDecision(text) ==
    LET data == json_loads(Strip(text))
    IN  data.ok /\ data.val.t = "dict" /\ DictHas(data.val, "decision")
\* strategy 2 finds a decision: a fenced json block holds an object with the key
FencedJsonDecision(text) ==
    LET json_match == FenceSearch(text)
        data == json_loads(json_match.group)
    IN  json_match.found /\ data.ok /\ DictHas(data.val, "decision")
\* strategy 3 finds a decision: the trimmed text starts with a keyword
PrefixDecision(text) ==
    \E keyword \in {"APPROVE", "CONCERNS", "REJECT"} : UpperStartsWith(Strip(text), keyword)
\* no extraction strategy finds a decision in the text
Unparseable(text) ==
    ~WholeJsonDecision(text) /\ ~FencedJsonDecision(text) /\ ~PrefixDecision(text)
\* the reviewer's response inside a subprocess output: the "result" text of
\* the Qwen list format, else the output itself
ResponseText(stdout) ==
    LET output == Strip(stdout)
        data == json_loads(output)
        items == data.val.v
    IN  IF /\ data.ok /\ data.val.t = "list" /\ items # <<>>
           /\ items[Len(items)].t = "dict"
           /\ DictGet(items[Len(items)], "result", PyNone).t = "str"
           /\ Truthy(DictGet(items[Len(items)], "result", PyNone))
        THEN DictGet(items[Len(items)], "result", PyNone).v
        ELSE output

(***************************************************************************)
(* C4: a response in which no extraction strategy finds a decision is      *)
(* never resolved to APPROVE: its verdict is CONCERNS with the raw text as *)
(* feedback, in parse_decision_from_content and in call_reviewer.          *)
(* call_reviewer defaults a missing decision key to APPROVE.               *)
(***************************************************************************)
C4_UnparseableIsConcerns ==
    /\ (path = "parse_decision" /\ Unparseable(content)) =>
            /\ parsed.decision = CONCERNS
            /\ parsed.feedback = PyStr(content)
    /\ (path = "call_reviewer" /\ Present(parsed) /\ Unparseable(ResponseText(content))) =>
            /\ parsed.decision = CONCERNS
            /\ Occurs(Take(ResponseText(content), RawResponseLimit), parsed.feedback.v)

(***************************************************************************)
(* C5: for every input text parse_decision_from_content returns a verdict  *)
(* whose decision is APPROVE, CONCERNS or REJECT and whose reason and      *)
(* feedback are strings.  The decision of a JSON object is passed through  *)
(* unchecked.                                                              *)
(***************************************************************************)
C5_ParseWellFormed ==
    path = "parse_decision" =>
        /\ parsed.decision \in Decisions
        /\ parsed.reason.t = "str"
        /\ parsed.feedback.t = "str"

(***************************************************************************)
(* C6: in the symmetric merge, when both reviewers are present with        *)
(* CONCERNS the merged decision is REJECT attributed to both, and the      *)
(* merged feedback holds each reviewer's reason right after its label.     *)
(***************************************************************************)
C6_BothConcernsEscalate ==
    (profile = "expert" /\ Says(qwen_result, CONCERNS) /\ Says(gemini_result, CONCERNS))
        => /\ merged.decision = REJECT
           /\ merged.model = "both"
           /\ IsPrefix(T("Qwen: ") \o qwen_result.reason.v, merged.feedback.v)
           /\ Occurs(T("\nGemini: ") \o gemini_result.reason.v, merged.feedback.v)

C6_Witness ==
    /\ profile = "expert"
    /\ Says(qwen_result, CONCERNS) /\ Says(gemini_result, CONCERNS)
    /\ qwen_result.reason # PyStr(<<>>)
    /\ gemini_result.reason \notin {PyStr(<<>>), qwen_result.reason}
    /\ merged.decision = REJECT

\* in the symmetric merge one reviewer approves and the other has concerns
C7_Case(approver, concerned) ==
    profile = "expert" /\ Says(approver, APPROVE) /\ Says(concerned, CONCERNS)

(***************************************************************************)
(* C7 as stated: one APPROVE and one CONCERNS give APPROVE whose reason is *)
(* the concerned reviewer's reason prefixed with "Warning:", attributed to *)
(* the concerned reviewer.                                                 *)
(***************************************************************************)
C7_WarningFromConcerned ==
    /\ C7_Case(qwen_result, gemini_result) =>
            /\ merged.decision = APPROVE
            /\ IsPrefix(T("Warning: "), merged.reason.v)
            /\ Occurs(gemini_result.reason.v, merged.reason.v)
            /\ merged.model = "gemini"
    /\ C7_Case(gemini_result, qwen_result) =>
            /\ merged.decision = APPROVE
            /\ IsPrefix(T("Warning: "), merged.reason.v)
            /\ Occurs(qwen_result.reason.v, merged.reason.v)
            /\ merged.model = "qwen"

\* what the symmetric merge returns for one APPROVE and one CONCERNS
C7_Outcome(approverName) ==
    /\ merged.decision = APPROVE
    /\ merged.reason = PyStr(T("Approved with warnings"))
    /\ merged.feedback = PyStr(T("Warning: ") \o
            FirstReason(qwen_result, gemini_result, "One model has concerns").v)
    /\ merged.model = approverName

(***************************************************************************)
(* C7 as amended: one APPROVE and one CONCERNS, in either order, give      *)
(* APPROVE with the reason "Approved with warnings"; the merged feedback   *)
(* is "Warning: " followed by the first non-empty of Qwen's reason,        *)
(* Gemini's reason and "One model has concerns"; the attribution names     *)
(* the approving reviewer.                                                 *)
(***************************************************************************)
C7_ApproveWithWarning ==
    /\ C7_Case(qwen_result, gemini_result) => C7_Outcome("qwen")
    /\ C7_Case(gemini_result, qwen_result) => C7_Outcome("gemini")

C7_Witness ==
    /\ C7_Case(qwen_result, gemini_result)
    /\ qwen_result.reason = PyStr(<<>>)
    /\ gemini_result.reason # PyStr(<<>>)
    /\ merged.feedback = PyStr(T("Warning: ") \o gemini_result.reason.v)
    /\ merged.model = "qwen"

\* in the symmetric merge `rejecter` rejects and `other` does not
C8_Case(rejecter, other) ==
    profile = "expert" /\ Says(rejecter, REJECT) /\ WellFormed(other)
        /\ ~Says(other, REJECT)

(***************************************************************************)
(* C8: when a present verdict is REJECT the merged reason and feedback are *)
(* the rejecting reviewer's and the attribution names it; with one         *)
(* rejecter the other reviewer's reason and feedback are never used, with  *)
(* two the first reviewer's are used.  The code takes the first non-empty  *)
(* reason in the order Qwen, Gemini, whoever rejected.                     *)
(***************************************************************************)
C8_RejectFromRejecter ==
    /\ C8_Case(qwen_result, gemini_result) =>
            /\ merged.reason \in {qwen_result.reason, PyStr(T("Model rejected"))}
            /\ merged.feedback = qwen_result.feedback
            /\ merged.model = "qwen"
    /\ C8_Case(gemini_result, qwen_result) =>
            /\ merged.reason \in {gemini_result.reason, PyStr(T("Model rejected"))}
            /\ merged.feedback = gemini_result.feedback
            /\ merged.model = "gemini"
    /\ (profile = "expert" /\ Says(qwen_result, REJECT) /\ Says(gemini_result, REJECT)) =>
            /\ merged.reason \in {qwen_result.reason, PyStr(T("Model rejected"))}
            /\ merged.feedback = qwen_result.feedback
            /\ merged.model = "qwen"

BothApprove == Says(qwen_result, APPROVE) /\ Says(gemini_result, APPROVE)

(***************************************************************************)
(* C9 as stated: two APPROVEs give APPROVE attributed to both, with the    *)
(* reason of either reviewer, a non-empty one preferred.                   *)
(***************************************************************************)
C9_ReasonFromEither ==
    (Merged /\ BothApprove)
        => /\ merged.decision = APPROVE
           /\ merged.model = "both"
           /\ merged.reason = PyOr(qwen_result.reason, gemini_result.reason)

(***************************************************************************)
(* C9 as amended: two APPROVEs give APPROVE; the symmetric merge           *)
(* attributes it to both with Qwen's reason, or "Both approved" when       *)
(* Qwen's reason is empty; the primary/advisory merge attributes it to     *)
(* qwen with Qwen's reason.  Gemini's reason is never used.                *)
(***************************************************************************)
C9_BothApprove ==
    (Merged /\ BothApprove)
        => /\ merged.decision = APPROVE
           /\ "feedback" \notin DOMAIN merged
           /\ profile = "expert" =>
                /\ merged.model = "both"
                /\ merged.reason = PyOr(qwen_result.reason, PyStr(T("Both approved")))
           /\ profile = "hook" =>
                /\ merged.model = "qwen"
                /\ merged.reason = qwen_result.reason

C9_Witness ==
    /\ profile = "expert"
    /\ BothApprove
    /\ qwen_result.reason = PyStr(<<>>)
    /\ gemini_result.reason # PyStr(<<>>)
    /\ merged.reason = PyStr(T("Both approved"))

(***************************************************************************)
(* C10: every merged decision REJECT or CONCERNS carries a non-empty       *)
(* reason, in both merges.  The primary/advisory merge copies the deciding *)
(* reviewer's reason, which may be empty.                                  *)
(***************************************************************************)
C10_BlockingHasReason ==
    (Merged /\ merged.decision \in {REJECT, CONCERNS})
        => (merged.reason.t = "str" /\ merged.reason.v # <<>>)

(***************************************************************************)
(* C11 as stated: every merged decision APPROVE has empty or missing       *)
(* feedback, in both merges.                                               *)
(***************************************************************************)
C11_ApproveHasNoFeedback ==
    (Merged /\ merged.decision = APPROVE) => MergedField("feedback") = PyStr(<<>>)

\* the symmetric merge approves with a warning: one reviewer approves and the
\* other has concerns or is absent
C11_WarnCase ==
    \/ Says(qwen_result, APPROVE) /\ (Says(gemini_result, CONCERNS) \/ Absent(gemini_result))
    \/ Says(gemini_result, APPROVE) /\ (Says(qwen_result, CONCERNS) \/ Absent(qwen_result))

(***************************************************************************)
(* C11 as amended: a merged APPROVE of the primary/advisory merge has no   *)
(* feedback entry.  A merged APPROVE of the symmetric merge has no         *)
(* feedback entry unless one reviewer approves and the other has concerns  *)
(* or is absent: then its feedback is a non-empty text starting with       *)
(* "Warning: ".                                                            *)
(***************************************************************************)
C11_ApproveFeedback ==
    (Merged /\ merged.decision = APPROVE)
        => /\ profile = "hook" => "feedback" \notin DOMAIN merged
           /\ (profile = "expert" /\ ~C11_WarnCase) => "feedback" \notin DOMAIN merged
           /\ (profile = "expert" /\ C11_WarnCase) =>
                /\ "feedback" \in DOMAIN merged
                /\ IsPrefix(T("Warning: "), merged.feedback.v)

C11_Witness ==
    /\ profile = "expert"
    /\ Says(gemini_result, APPROVE) /\ Absent(qwen_result)
    /\ merged.decision = APPROVE
    /\ merged.feedback = PyStr(T("Warning: ") \o gemini_result.reason.v)
    /\ gemini_result.reason # PyStr(<<>>)

\* the symmetric merge with the two reviewers swapped
C19_Swapped == merge_results(gemini_result, qwen_result)
\* the attribution that names the same underlying reviewer(s) after a swap
C19_SwapName(name) ==
    CASE name = "qwen" -> "gemini"
      [] name = "gemini" -> "qwen"
      [] OTHER -> name
C19_DoubleReject == Says(qwen_result, REJECT) /\ Says(gemini_result, REJECT)

(***************************************************************************)
(* C19 as stated: in the symmetric merge, for every pair of results other  *)
(* than double-REJECT, swapping the two reviewers gives the same merged    *)
(* decision, reason and feedback, and the attribution names the same       *)
(* underlying reviewer(s).                                                 *)
(***************************************************************************)
C19_Commutative ==
    (profile = "expert" /\ ~C19_DoubleReject)
        => /\ C19_Swapped.decision = merged.decision
           /\ C19_Swapped.reason = merged.reason
           /\ Get(C19_Swapped, "feedback", PyStr(<<>>)) = MergedField("feedback")
           /\ C19_Swapped.model = C19_SwapName(merged.model)

(***************************************************************************)
(* C19 as amended: in the symmetric merge, swapping the two reviewers      *)
(* gives the same merged decision for every pair of results, double-REJECT *)
(* included, and for every pair other than double-REJECT the attribution   *)
(* names the same underlying reviewer(s).  Reason and feedback are taken   *)
(* Qwen-first and are the same after a swap when the two reviewers carry   *)
(* the same reason and the same feedback.                                  *)
(***************************************************************************)
C19_DecisionCommutative ==
    profile = "expert"
        => /\ C19_Swapped.decision = merged.decision
           /\ ~C19_DoubleReject => C19_Swapped.model = C19_SwapName(merged.model)
           /\ (/\ Get(qwen_result, "reason", PyStr(<<>>)) = Get(gemini_result, "reason", PyStr(<<>>))
               /\ Get(qwen_result, "feedback", PyStr(<<>>)) = Get(gemini_result, "feedback", PyStr(<<>>)))
                => /\ C19_Swapped.reason = merged.reason
                   /\ Get(C19_Swapped, "feedback", PyStr(<<>>)) = MergedField("feedback")

C19_Witness ==
    /\ profile = "expert"
    /\ Says(qwen_result, APPROVE) /\ Says(gemini_result, REJECT)
    /\ qwen_result.reason # PyStr(<<>>)
    /\ gemini_result.reason \notin {PyStr(<<>>), qwen_result.reason}
    /\ merged.decision = REJECT /\ C19_Swapped.decision = REJECT
    /\ merged.model = "gemini" /\ C19_Swapped.model = "qwen"
    /\ merged.reason = qwen_result.reason
    /\ C19_Swapped.reason = gemini_result.reason

\* the JSON object the whole text is, and the one its first fenced block holds
C20_WholeObject(text) == json_loads(Strip(text)).val
C20_FencedObject(text) == json_loads(FenceSearch(text).group).val
\* the parsed verdict carries exactly the fields of the object
C20_FieldsOf(object) ==
    /\ parsed.decision = DictGet(object, "decision", PyNone)
    /\ parsed.reason = DictGet(object, "reason", PyStr(<<>>))
    /\ parsed.feedback = DictGet(object, "feedback", PyStr(<<>>))
\* the decision named by the keyword the trimmed text starts with
C20_PrefixOf(text) ==
    IF UpperStartsWith(Strip(text), "APPROVE") THEN APPROVE
    ELSE IF UpperStartsWith(Strip(text), "CONCERNS") THEN CONCERNS
    ELSE REJECT
\* whole-text object first, else fenced object, else prefix token
C20_Order(text) ==
    /\ WholeJsonDecision(text) => C20_FieldsOf(C20_WholeObject(text))
    /\ (~WholeJsonDecision(text) /\ FencedJsonDecision(text))
            => C20_FieldsOf(C20_FencedObject(text))
    /\ (~WholeJsonDecision(text) /\ ~FencedJsonDecision(text) /\ PrefixDecision(text))
            => parsed.decision = C20_PrefixOf(text)

(***************************************************************************)
(* C20: verdict extraction tries its strategies in a fixed order, first    *)
(* success wins: the whole text as a JSON object with a decision key, else *)
(* a fenced json block holding such an object, else the prefix token; in   *)
(* parse_decision_from_content and in call_reviewer alike.  call_reviewer  *)
(* has no prefix strategy and, for an output that is not the Qwen list,    *)
(* looks for the fenced block before the whole object.                     *)
(***************************************************************************)
C20_FixedOrder ==
    /\ path = "parse_decision" => C20_Order(content)
    /\ (path = "call_reviewer" /\ Present(parsed)) => C20_Order(ResponseText(content))

\* the orchestrator has merged
Orchestrated == program # "none" /\ profile # "none"
\* the slot of a reviewer handed to the merge
Slot(r) == IF r = "qwen" THEN qwen_result ELSE gemini_result
\* the call of reviewer r ended in a failure: no response or an error status,
\* a subprocess that did not exit with 0, a body or output that is broken
FailedOutcome(r) ==
    /\ task[r] = "done"
    /\ \/ outcome[r].how \notin {"ok", "exit0"}
       \/ outcome[r].body \in BrokenBodies \cup HookBroken

(***************************************************************************)
(* C12: the orchestrator merges only after every launched reviewer call    *)
(* has finished, and audit_plan returns the result of every launched call  *)
(* next to the merged decision.  A result whose model identifier starts    *)
(* with neither "qwen" nor "gemini" is left out of the returned value      *)
(* (the slot assignment of C28).                                           *)
(***************************************************************************)
C12_MergeAfterAllRecorded ==
    /\ (program # "none" /\ merged # PyNone) => \A r \in Reviewers : task[r] # "running"
    /\ (program = "main" /\ Orchestrated) =>
            \A r \in Reviewers : task[r] = "done" /\ Slot(r) = results[r]
    /\ (program = "audit_plan" /\ Orchestrated /\ pc = "done") =>
            \A r \in Reviewers : task[r] = "done" => ret[r] = results[r]

(***************************************************************************)
(* C13: whatever the outcomes of the reviewer calls, an orchestrator with  *)
(* at least one launched reviewer does not raise and, once all calls have  *)
(* ended, returns with a merged decision and reason.  audit_plan raises    *)
(* TypeError at reason[:100] when the merged reason is a JSON number.      *)
(***************************************************************************)
C13_AlwaysMerged ==
    (program # "none" /\ \E r \in Reviewers : calls[r] > 0)
        => /\ pc # "raised"
           /\ pc = "done" =>
                /\ {"decision", "reason"} \subseteq DOMAIN merged
                /\ program = "audit_plan" => ret.merged = merged
                /\ program = "main" => ret.exit \in {0, 2}

(***************************************************************************)
(* C14: no exception escapes call_qwen, call_gemini or call_reviewer: each *)
(* ended call has returned a result dict, and for every failure (timeout,  *)
(* no connection, error status, command not found, non-zero exit, empty    *)
(* output, broken or unexpectedly shaped body) the result has success      *)
(* false and an error entry that is a string.                              *)
(***************************************************************************)
C14_NoExceptionEscapes ==
    \A r \in Reviewers :
        /\ task[r] = "done" => (IsDict(results[r]) /\ "success" \in DOMAIN results[r])
        /\ FailedOutcome(r) =>
                /\ results[r].success = PyFalse
                /\ "error" \in DOMAIN results[r]
                /\ results[r].error.t = "str"

C14_Witness ==
    /\ program = "audit_plan" /\ pc = "done"
    /\ outcome["qwen"].how = "timeout"
    /\ outcome["gemini"] = [how |-> "ok", body |-> GeminiBody(PyNone)]
    /\ results["qwen"].success = PyFalse
    /\ results["qwen"].error = PyStr(T("ReadTimeout") \o T(": "))
    /\ results["gemini"].success = PyFalse
    /\ results["gemini"].error = PyStr(T("expected string"))

\* both API keys are absent
C15_NoKeys ==
    program = "audit_plan" /\ \A r \in Reviewers : ~Truthy(ApiKey(config, r))

C16_NoKeyNoCall ==
    program = "audit_plan" =>
        \A r \in Reviewers :
            /\ ~Truthy(ApiKey(config, r)) =>
                    (calls[r] = 0 /\ task[r] = "none" /\ results[r] = PyNone)
            /\ (Truthy(ApiKey(config, r)) /\ pc # "start") => calls[r] = 1

C16_Witness ==
    /\ program = "audit_plan" /\ pc = "done"
    /\ ~Truthy(ApiKey(config, "qwen")) /\ Truthy(ApiKey(config, "gemini"))
    /\ calls = [r \in Reviewers |-> IF r = "gemini" THEN 1 ELSE 0]
    /\ Present(results["gemini"])
    /\ "merged" \in DOMAIN ret

(***************************************************************************)
(* C17: a failure of one reviewer call affects only that call: once the    *)
(* orchestrator has merged, the launched sibling has run to its own end    *)
(* and its result is the one handed to the merge.  audit_plan hands the    *)
(* merge no result for a sibling whose model identifier starts with        *)
(* neither "qwen" nor "gemini" (the slot assignment of C28).               *)
(***************************************************************************)
C17_SiblingUnaffected ==
    \A r \in Reviewers : \A sibling \in Reviewers \ {r} :
        (Orchestrated /\ FailedOutcome(r) /\ task[sibling] # "none")
            => (task[sibling] = "done" /\ Slot(sibling) = results[sibling])

(***************************************************************************)
(* C18: within one audit each reviewer is invoked at most once, a reviewer *)
(* whose call has ended is not invoked again, and the opinion of a         *)
(* reviewer whose call failed is absent in the merge.                      *)
(***************************************************************************)
C18_AtMostOnce ==
    program # "none" =>
        \A r \in Reviewers :
            /\ calls[r] <= 1
            /\ task[r] # "none" => calls[r] = 1
            /\ (Orchestrated /\ FailedOutcome(r)) => Absent(OrEmptyDict(Slot(r)))

C18_Witness ==
    /\ program = "audit_plan" /\ pc = "done"
    /\ outcome["qwen"].how = "timeout"
    /\ calls["qwen"] = 1 /\ calls["gemini"] = 1
    /\ Slot("qwen") # PyNone /\ Absent(Slot("qwen"))
    /\ Says(Slot("gemini"), APPROVE)
    /\ merged.decision = APPROVE /\ merged.model = "gemini"

\* the verdicts: a canonical decision, any reason, any feedback
C21_Verdicts ==
    {[decision |-> d, reason |-> PyStr(r), feedback |-> PyStr(f)] :
        d \in Decisions, r \in ReasonTexts, f \in {<<>>, T("feedback1"), QuotedBlock}}
\* json.dumps of a verdict
C21_Serialized(v) ==
    json_dumps(PyDict(Field("decision", v.decision) \o Field("reason", v.reason)
                        \o Field("feedback", v.feedback)))

(***************************************************************************)
(* C21: round trip: parse_decision_from_content applied to the JSON        *)
(* serialization of a verdict (decision APPROVE, CONCERNS or REJECT, any   *)
(* reason and feedback string, empty ones included) returns the same       *)
(* decision, reason and feedback.                                          *)
(***************************************************************************)
C21_RoundTrip ==
    path = "parse_decision" =>
        \A v \in C21_Verdicts : Strip(content) = C21_Serialized(v) => parsed = v

C21_Witness ==
    /\ path = "parse_decision"
    /\ \E v \in C21_Verdicts :
        /\ v.decision = REJECT /\ v.reason = PyStr(<<>>) /\ v.feedback = PyStr(QuotedBlock)
        /\ content = C21_Serialized(v)
        /\ parsed = v

\* neither the whole text nor a fenced block is a JSON object with a decision
C22_NoJson ==
    /\ LET whole == json_loads(Strip(content))
       IN  ~(whole.ok /\ whole.val.t = "dict" /\ DictHas(whole.val, "decision"))
    /\ LET json_match == FenceSearch(content)
           block == json_loads(json_match.group)
       IN  ~(json_match.found /\ block.ok /\ DictHas(block.val, "decision"))
\* the trimmed text starts, in any letter case, with the keyword
C22_StartsWith(keyword) ==
    /\ path = "parse_decision" /\ C22_NoJson
    /\ UpperStartsWith(Strip(content), keyword)

(***************************************************************************)
(* C22: when no JSON strategy applies and the trimmed response starts, in  *)
(* any letter case, with APPROVE, CONCERNS or REJECT, the decision is that *)
(* keyword with its generic reason; the feedback is empty for APPROVE and  *)
(* the whole response text for CONCERNS and REJECT.                        *)
(***************************************************************************)
C22_PrefixStrategy ==
    /\ C22_StartsWith("APPROVE") =>
            parsed = [decision |-> APPROVE, reason |-> PyStr(T("Model approved")),
                      feedback |-> PyStr(<<>>)]
    /\ C22_StartsWith("CONCERNS") =>
            parsed = [decision |-> CONCERNS, reason |-> PyStr(T("Model has concerns")),
                      feedback |-> PyStr(content)]
    /\ C22_StartsWith("REJECT") =>
            parsed = [decision |-> REJECT, reason |-> PyStr(T("Model rejected")),
                      feedback |-> PyStr(content)]

C22_Witness ==
    /\ C22_StartsWith("REJECT")
    /\ Head(content).k = "ws" /\ Len(Strip(content)) > 2
    /\ parsed.decision = REJECT /\ parsed.feedback = PyStr(content)

\* the raw text APPROVE
C22_WitnessApprove ==
    /\ C22_StartsWith("APPROVE")
    /\ Strip(content) = <<W("APPROVE")>>
    /\ parsed.decision = APPROVE /\ parsed.feedback = PyStr(<<>>)

\* the more severe of two canonical decisions
C23_Worse(d1, d2) ==
    IF REJECT \in {d1, d2} THEN REJECT
    ELSE IF CONCERNS \in {d1, d2} THEN CONCERNS ELSE APPROVE

(***************************************************************************)
(* C23: in the primary/advisory merge with both reviewers successful, the  *)
(* advisory reviewer escalates a less severe primary verdict: the merged   *)
(* decision is the more severe of the two.  Qwen CONCERNS with Gemini      *)
(* REJECT is merged to CONCERNS.                                           *)
(***************************************************************************)
C23_AdvisoryEscalates ==
    (profile = "hook" /\ WellFormed(qwen_result) /\ WellFormed(gemini_result))
        => merged.decision = C23_Worse(qwen_result.decision, gemini_result.decision)

\* successful results that say CONCERNS
C25_Concerned == {r \in SuccessResults : r.decision = CONCERNS}

(***************************************************************************)
(* C25: in the symmetric merge a failed or missing result counts as        *)
(* CONCERNS: putting a successful CONCERNS result in the place of a        *)
(* failed or missing one leaves the merged decision unchanged.             *)
(***************************************************************************)
C25_FailedIsConcerns ==
    profile = "expert" =>
        /\ Absent(qwen_result) =>
                \A c \in C25_Concerned :
                    /\ merge_results(c, gemini_result).decision = merged.decision
                    /\ merge_results(PyNone, gemini_result).decision = merged.decision
        /\ Absent(gemini_result) =>
                \A c \in C25_Concerned :
                    /\ merge_results(qwen_result, c).decision = merged.decision
                    /\ merge_results(qwen_result, PyNone).decision = merged.decision

C25_Witness ==
    /\ profile = "expert"
    /\ Absent(qwen_result) /\ qwen_result # EmptyDict
    /\ Says(gemini_result, APPROVE)
    /\ merged.decision = APPROVE
    /\ MergedField("feedback") # PyStr(<<>>)
    /\ \A c \in C25_Concerned : merge_results(c, gemini_result).decision = APPROVE

(***************************************************************************)
(* C26: the primary/advisory merge returns APPROVE only if Qwen succeeded  *)
(* with APPROVE and Gemini failed or returned APPROVE.  It also returns    *)
(* APPROVE when Qwen failed.                                               *)
(***************************************************************************)
C26_ApproveOnlyIf ==
    (profile = "hook" /\ merged.decision = APPROVE)
        => /\ Says(qwen_result, APPROVE)
           /\ Absent(gemini_result) \/ Says(gemini_result, APPROVE)

\* a successful result whose decision is none of the three
C27_Unrecognised(result) == Present(result) /\ result.decision \notin Decisions

(***************************************************************************)
(* C27: a successful result whose decision is not exactly APPROVE,         *)
(* CONCERNS or REJECT never leads to approval, in either merge.  Both      *)
(* merges fall through to their approving branch on such a decision.       *)
(***************************************************************************)
C27_UnrecognisedNeverApproves ==
    (Merged /\ (C27_Unrecognised(qwen_result) \/ C27_Unrecognised(gemini_result)))
        => merged.decision # APPROVE

\* the hook has run its review to the end
C24_Reviewed == program = "main" /\ pc = "done" /\ profile = "hook"

(***************************************************************************)
(* C24: once a review has run, the hook's main returns 0 without a deny    *)
(* output exactly when the merged decision is APPROVE; otherwise it        *)
(* returns 2 with a deny permission decision whose reason text contains    *)
(* the merged decision and the merged reason.                              *)
(***************************************************************************)
C24_ExitCode ==
    C24_Reviewed =>
        /\ ret.exit = 0 <=> merged.decision = APPROVE
        /\ ret.exit = 0 => DOMAIN ret = {"exit"}
        /\ ret.exit # 0 =>
                /\ ret.exit = 2
                /\ ret.permissionDecision = "deny"
                /\ Occurs(Format(merged.decision), ret.permissionDecisionReason)
                /\ Occurs(Format(merged.reason), ret.permissionDecisionReason)

C24_Witness ==
    /\ C24_Reviewed
    /\ merged.decision = REJECT /\ merged.reason = PyStr(T("reason2"))
    /\ ret.exit = 2
    /\ Occurs(T("REJECT"), ret.permissionDecisionReason)
    /\ Occurs(T("reason2"), ret.permissionDecisionReason)

C24_WitnessAllow ==
    /\ C24_Reviewed
    /\ Says(qwen_result, APPROVE) /\ Says(gemini_result, APPROVE)
    /\ ret = [exit |-> 0]

(***************************************************************************)
(* C28: audit_plan assigns the result of every launched call to that       *)
(* call's own slot, whatever the configured model identifier.  The result  *)
(* of a model whose identifier starts with neither "qwen" nor "gemini"     *)
(* reaches no slot.                                                        *)
(***************************************************************************)
C28_OwnSlot ==
    (program = "audit_plan" /\ Orchestrated) =>
        \A r \in Reviewers : calls[r] > 0 => Slot(r) = results[r]

\* the event read from stdin, and a field of it (absent unless the event is an object)
C29_Input == json_loads(event.stdin)
C29_Field(key) ==
    IF C29_Input.ok /\ C29_Input.val.t = "dict"
    THEN DictGet(C29_Input.val, key, Missing)
    ELSE Missing
\* the plan text of the event, or of the latest plan file
C29_PlanText ==
    LET tool_input == C29_Field("tool_input")
        plan == IF tool_input.t = "dict" THEN DictGet(tool_input, "plan", Missing) ELSE Missing
    IN  IF plan.t = "str" /\ plan.v # <<>> THEN plan.v ELSE event.plans
\* one of the guards holds the event back
C29_HeldBack ==
    \/ ~C29_Input.ok
    \/ event.off = PyStr(T("1"))
    \/ C29_Field("tool_name") # PyStr(T("ExitPlanMode"))
    \/ C29_Field("session_id") \in {Missing, PyStr(<<>>)}
    \/ C29_PlanText = <<>>

(***************************************************************************)
(* C29: the hook reviews only a reviewable event.  When stdin is no valid  *)
(* JSON, GEMINI_REVIEW_OFF is 1, the tool is not ExitPlanMode, the session *)
(* id is empty or there is no plan text, main returns 0 and no reviewer is *)
(* invoked; a reviewer is invoked only when no guard holds the event back. *)
(* With a stdin that is JSON but no object main raises AttributeError,     *)
(* even when GEMINI_REVIEW_OFF is 1.                                       *)
(***************************************************************************)
C29_ReviewOnlyReviewable ==
    program = "main" =>
        /\ (C29_HeldBack /\ pc # "start") =>
                /\ pc = "done" /\ ret = [exit |-> 0]
                /\ \A r \in Reviewers : calls[r] = 0
        /\ (\E r \in Reviewers : calls[r] > 0) => ~C29_HeldBack

\* the single-reviewer hook has ended, by a return or by an exception
C30_Ended == program = "single" /\ pc \in {"done", "raised"}
\* what Gemini printed, as JSON
C30_Output == json_loads(Strip(outcome["gemini"].body))
\* the decision of the printed object (absent unless an object was printed)
C30_Decision ==
    IF C30_Output.ok /\ C30_Output.val.t = "dict"
    THEN DictGet(C30_Output.val, "decision", Missing)
    ELSE Missing
\* Gemini ran and printed JSON with a non-empty decision other than APPROVE
C30_Blocking ==
    /\ outcome["gemini"].how \in {"exit0", "exit1"}
    /\ C30_Decision \notin {Missing, PyNone, PyStr(<<>>), APPROVE}

(***************************************************************************)
(* C30: the single-reviewer hook always ends with exit status 0 or 2 and   *)
(* no exception escapes it; it returns 2 only when the Gemini output,      *)
(* parsed as JSON, carries a non-empty decision other than APPROVE, and 0  *)
(* in every other case (timeout, missing command, empty output, no JSON,   *)
(* JSON of an unexpected shape).  Output that is JSON but no object makes  *)
(* main raise AttributeError.                                              *)
(***************************************************************************)
C30_FailOpen ==
    (C30_Ended /\ calls["gemini"] > 0) =>
        /\ pc = "done"
        /\ ret.exit \in {0, 2}
        /\ ret.exit = 2 <=> C30_Blocking

====
